---- MODULE Spec2Model ----
(***************************************************************************)
(* Model of the request orchestrator (ApiClient, generateImage) of         *)
(* src/src/services/mockApi.ts, of the local history store                 *)
(* (HistoryService) of src/src/services/historyService.ts, and of the App  *)
(* component that uses both (src/unnamed/part_002).                        *)
(*                                                                         *)
(* One step of the model is one turn of the JavaScript event loop: a call  *)
(* made by the UI (generateWithRetry, abort, a history operation) or a     *)
(* timer that fires, together with all the promise continuations           *)
(* (microtasks) it triggers up to the next suspension point.               *)
(***************************************************************************)
EXTENDS Integers, Sequences, FiniteSets

\* ------------------------------------------------------------------ bounds
MaxReq == 2          \* generateWithRetry calls made on the one ApiClient
MaxAttemptsArg == 2  \* largest maxAttempts argument passed (0..MaxAttemptsArg)
NumImages == 1       \* size of the pool the result's imageUrl is drawn from
NumIds == 6          \* distinct result ids handed to the history store
MaxStored == 2       \* longest array found in storage when the store is first read
NumListeners == 2    \* callbacks that register with useHistoryUpdates
NumStoreIds == 2     \* distinct result ids handed to the store while listeners are observed
JitterSteps == 16    \* Math.random() draws k / JitterSteps, k in 0..JitterSteps-1
MaxBackoffAttempt == 7  \* largest attempt number calculateBackoffWithJitter is applied to
DrawSteps == 10      \* generateImage's Math.random() draws k / DrawSteps, k in 0..DrawSteps-1

Reqs == 1..MaxReq

\* GenerateRequest values the UI submits (imageDataUrl is never read by the code)
Requests ==
    { [prompt |-> "a", style |-> "editorial"],
      [prompt |-> "b", style |-> "vintage"] }

NoRequest == [prompt |-> "", style |-> ""]
NoResult == [kind |-> "none"]

\* Error values: class is the constructor (what instanceof tests), name the name
\* property, message the message
Err(class, name, message) ==
    [kind |-> "error", class |-> class, name |-> name, message |-> message]

AbortErr == Err("AbortError", "AbortError", "Request was cancelled")
OverloadedErr == Err("Error", "Error", "Model overloaded. Please try again.")
UnknownErr == Err("Error", "Error", "Unknown error occurred")

\* the error withTimeout rejects with: a plain Error whose name is set afterwards
TimeoutErr == Err("Error", "TimeoutError", "Request timed out after 30000ms")

\* errors of the other classes of the module, and errors of no known class
ValidationErr == Err("ValidationError", "ValidationError", "Invalid request")
NetworkErr == Err("NetworkError", "NetworkError", "Network request failed")
ServerErr == Err("ServerError", "ServerError", "Internal server error")
RateLimitErr == Err("Error", "Error", "rate limit exceeded")
OddErr == Err("Error", "Error", "Something unexpected")

VARIABLES
    requestId,        \* ApiClient.requestId
    abortController,  \* ApiClient.abortController: 0 is null, c > 0 the controller made by call c
    aborted,          \* aborted[c]: signal.aborted of controller c
    call,             \* call[r]: the state of the r-th generateWithRetry call (its locals and promise)
    store,            \* localStorage's value under STORAGE_KEY
    notified,         \* detail of the last 'historyUpdated' event dispatched (NoEvent: none yet)
    ret,              \* what the last direct getHistory() call returned (NotCalled: none yet)
    recency,          \* history: the entries added so far, latest add of each id, most recent first
    clean,            \* history: only addToHistory calls on a working storage have happened
    listeners,        \* the callbacks registered with useHistoryUpdates
    heard,            \* heard[l]: the detail callback l was called with during the last history
                      \* operation (NoEvent: it was not called)
    op,               \* history: the history operation made in the last step (NoOp: none)
    generating,       \* App state isGenerating
    generatedResult,  \* App state generatedResult (NoResult is null)
    generationError,  \* App state generationError ("" is null)
    inv,              \* inv[i]: the i-th invocation of the App's handleGenerate
    backoff,          \* the last calculateBackoffWithJitter call: its argument, its
                      \* Math.random() draw and what it returned (NoBackoff: none yet)
    left,             \* history: the callbacks whose cleanup function has been called
                      \* since they were last registered
    timers,           \* the pending setTimeout timers of generateImage, withTimeout and
                      \* waitWithAbortCheck, where they are observed (TimerSpec)
    drawn,            \* the last direct generateImage call: its request, its Math.random()
                      \* draws and what it settled with (NoDraw: none yet)
    form,             \* App state imageDataUrl, prompt and selectedStyle
    validationErrors  \* App state validationErrors: the messages shown

apiVars == <<requestId, abortController, aborted, call>>

histVars == <<store, notified, ret, recency, clean>>

obsVars == <<listeners, heard, op, left>>

appVars == <<generating, generatedResult, generationError, inv, form, validationErrors>>

vars == <<apiVars, histVars, obsVars, appVars, backoff, timers, drawn>>

\* A call that has not been made yet.  Fields:
\*   id           currentRequestId
\*   pc           "idle" | "attempting" (awaiting generateImage) | "waiting" (awaiting
\*                waitWithAbortCheck) | "resolved" | "rejected"
\*   request, maxAttempts   the arguments
\*   attempt      the loop variable
\*   signal       the controller whose signal the pending generateImage or wait listens to
\*   shouldError  the draw of the pending generateImage
\*   lastError    the local lastError (NoResult is null)
\*   outcome      the value the promise resolved with, or the error it rejected with
\*   calls, draws, superseded, cancelled   history: generateImage invocations made, their
\*                shouldError draws, whether a later call was issued / abort() was called
\*                while this call was unresolved
\*   yields       history: what the attempts settled with, when the backend is a stand-in
\*   waits        history: the backoff waits entered (pending waitWithAbortCheck promises)
\*   late         history: an attempt was started when the call was already superseded,
\*                cancelled or failed with a non-retryable error
IdleCall(r) ==
    [id |-> r, pc |-> "idle", request |-> NoRequest, maxAttempts |-> 0, attempt |-> 0,
     signal |-> 0, shouldError |-> FALSE, lastError |-> NoResult, outcome |-> NoResult,
     calls |-> 0, draws |-> <<>>, superseded |-> FALSE, cancelled |-> FALSE,
     yields |-> <<>>, waits |-> 0, late |-> FALSE]

\* ------------------------------------------------------------ ErrorHandler
\* String.prototype.includes on the messages of the error values above
includes(message, word) ==
    <<message, word>> \in { <<OverloadedErr.message, "Model overloaded">>,
                            <<RateLimitErr.message, "rate limit">> }

Category(code, userMessage, retryable) ==
    [code |-> code, userMessage |-> userMessage, retryable |-> retryable]

categorizeError(e) ==
    IF e.class = "AbortError"
    THEN Category("REQUEST_CANCELLED", "Request was cancelled", FALSE)
    ELSE IF e.class = "TimeoutError"
    THEN Category("REQUEST_TIMEOUT",
                  "Request timed out. Please check your connection and try again.", TRUE)
    ELSE IF e.class = "ValidationError"
    THEN Category("VALIDATION_ERROR", "Please check your inputs and try again.", FALSE)
    ELSE IF e.class = "NetworkError"
    THEN Category("NETWORK_ERROR", "Network error. Please check your internet connection.", TRUE)
    ELSE IF e.class = "ServerError"
    THEN Category("SERVER_ERROR",
                  "Server is experiencing issues. Please try again in a few moments.", TRUE)
    ELSE IF includes(e.message, "Model overloaded")
    THEN Category("MODEL_OVERLOADED",
                  "AI model is currently busy. Please wait a moment and try again.", TRUE)
    ELSE IF includes(e.message, "quota") \/ includes(e.message, "rate limit")
    THEN Category("RATE_LIMITED",
                  "Too many requests. Please wait a moment before trying again.", TRUE)
    ELSE Category("UNKNOWN_ERROR", "An unexpected error occurred. Please try again.", TRUE)

getUserMessage(e) == categorizeError(e).userMessage

isRetryableError(e) == categorizeError(e).retryable

\* ---------------------------------------------------------------- ApiClient
isGenerating == abortController # 0 /\ ~aborted[abortController]

Unresolved(s) == s.pc \in {"attempting", "waiting"}

Resolve(s, v) == [s EXCEPT !.pc = "resolved", !.outcome = v, !.signal = 0, !.shouldError = FALSE]

Reject(s, e) == [s EXCEPT !.pc = "rejected", !.outcome = e, !.signal = 0, !.shouldError = FALSE]

\* mutant: the loop exit forgets lastError
LoopExitForgetsLastError(s) == Reject(s, UnknownErr)

\* throw lastError || new Error('Unknown error occurred')
LoopExit(s) == Reject(s, IF s.lastError = NoResult THEN UnknownErr ELSE s.lastError)

\* currentRequestId !== this.requestId, with rid the value of this.requestId
IsSuperseded(s, rid) == s.id # rid

\* waitWithAbortCheck, up to the point where the promise is pending; ctl is
\* this.abortController, on whose signal the abort listener is registered
waitWithAbortCheck(s, rid, ctl) ==
    IF IsSuperseded(s, rid) THEN Reject(s, AbortErr)
    ELSE [s EXCEPT !.pc = "waiting", !.signal = ctl, !.shouldError = FALSE,
                   !.waits = @ + 1]

\* the "don't retry" condition of the catch block
NoRetry(s, e, rid) ==
    e.name = "AbortError" \/ IsSuperseded(s, rid) \/ ~isRetryableError(e)

\* mutant: the catch block tests attempt < maxAttempts - 1 and gives up one attempt early
CatchGivesUpEarly(s, e, rid, ctl) ==
    LET s1 == [s EXCEPT !.lastError = e] IN
    IF NoRetry(s1, e, rid) THEN Reject(s1, e)
    ELSE IF s1.attempt < s1.maxAttempts - 1 THEN waitWithAbortCheck(s1, rid, ctl)
    ELSE LoopExit([s1 EXCEPT !.attempt = @ + 1])

\* mutant: the catch block waits after every retryable failure, the last attempt's too
CatchWaitsAfterLast(s, e, rid, ctl) ==
    LET s1 == [s EXCEPT !.lastError = e] IN
    IF NoRetry(s1, e, rid) THEN Reject(s1, e)
    ELSE waitWithAbortCheck(s1, rid, ctl)

\* the catch block of the retry loop, entered with error e
Catch(s, e, rid, ctl) ==
    LET s1 == [s EXCEPT !.lastError = e] IN
    IF NoRetry(s1, e, rid) THEN Reject(s1, e)
    ELSE IF s1.attempt < s1.maxAttempts THEN waitWithAbortCheck(s1, rid, ctl)
    ELSE LoopExit([s1 EXCEPT !.attempt = @ + 1])

\* generateImage, up to the point where it awaits its delay timer; c is the
\* controller whose signal was passed, err the shouldError it draws
generateImageStart(s, c, cAborted, err, rid) ==
    LET s1 == [s EXCEPT !.calls = @ + 1,
                        !.late = @ \/ s.superseded \/ s.cancelled
                                   \/ (s.lastError # NoResult /\ ~isRetryableError(s.lastError))]
    IN
    IF cAborted THEN Catch(s1, AbortErr, rid, c)
    ELSE [s1 EXCEPT !.pc = "attempting", !.signal = c, !.shouldError = err,
                    !.draws = Append(@, err)]

\* mutant: the loop test is attempt <= maxAttempts + 1
IterationOneMore(s, rid, ctl, ctlAborted, err) ==
    IF s.attempt > s.maxAttempts + 1 THEN LoopExit(s)
    ELSE IF ctlAborted THEN Catch(s, AbortErr, rid, ctl)
    ELSE IF IsSuperseded(s, rid) THEN Catch(s, AbortErr, rid, ctl)
    ELSE generateImageStart(s, ctl, ctlAborted, err, rid)

\* mutant: the loop body starts the attempt without the two checks at its top
IterationUnchecked(s, rid, ctl, ctlAborted, err) ==
    IF s.attempt > s.maxAttempts THEN LoopExit(s)
    ELSE generateImageStart(s, ctl, ctlAborted, err, rid)

\* one iteration of the retry loop, from the loop test to the await of the attempt
Iteration(s, rid, ctl, ctlAborted, err) ==
    IF s.attempt > s.maxAttempts THEN LoopExit(s)
    ELSE IF ctlAborted THEN Catch(s, AbortErr, rid, ctl)
    ELSE IF IsSuperseded(s, rid) THEN Catch(s, AbortErr, rid, ctl)
    ELSE generateImageStart(s, ctl, ctlAborted, err, rid)

\* mutant: the response carries a fixed prompt and style, not the request's
ResponseOfFixedRequest(s, img) ==
    [kind |-> "result", id |-> <<s.id, s.attempt>>, imageUrl |-> img,
     prompt |-> "a", style |-> "editorial"]

\* the mock response built by generateImage
Response(s, img) ==
    [kind |-> "result", id |-> <<s.id, s.attempt>>, imageUrl |-> img,
     prompt |-> s.request.prompt, style |-> s.request.style]

\* shouldError = Math.random() < 0.2, for the draw k / DrawSteps
shouldError(k) == 5 * k < DrawSteps

\* mutant: a generateImage that drew no failure takes longer than the 30000 ms of
\* withTimeout, whose timer fires first
generateImageEndTooSlow(s, sigAborted, img) ==
    IF sigAborted THEN AbortErr
    ELSE IF s.shouldError THEN OverloadedErr
    ELSE TimeoutErr

\* what the pending generateImage settles with when its delay timer fires
generateImageEnd(s, sigAborted, img) ==
    IF sigAborted THEN AbortErr
    ELSE IF s.shouldError THEN OverloadedErr
    ELSE Response(s, img)

\* mutant: the try block returns the result without the final supersession check
AfterAttemptNoFinalCheck(s, v, rid, ctl) ==
    IF v.kind = "error" THEN Catch(s, v, rid, ctl)
    ELSE Resolve(s, v)

\* the rest of the try block after the attempt returned result v: the final check
AfterAttempt(s, v, rid, ctl) ==
    IF v.kind = "error" THEN Catch(s, v, rid, ctl)
    ELSE IF IsSuperseded(s, rid) THEN Catch(s, AbortErr, rid, ctl)
    ELSE Resolve(s, v)

\* ------------------------------------------------------ orchestrator claims
Made(s) == s.pc # "idle"

Settled(s) == s.pc \in {"resolved", "rejected"}

\* no abort() and no later generateWithRetry while the call was unresolved
Undisturbed(s) == ~s.superseded /\ ~s.cancelled

\* every backend attempt made so far drew a failure
AllFailed(s) == \A i \in 1..Len(s.draws) : s.draws[i]

\* the backend failed the first k attempts and drew a success for attempt k+1
FailedThenOk(s) ==
    /\ Len(s.draws) > 0
    /\ ~s.draws[Len(s.draws)]
    /\ \A i \in 1..(Len(s.draws) - 1) : s.draws[i]

IsCancelled(s) == s.pc = "rejected" /\ s.outcome.name = "AbortError"

\* the call rejected with the error that withTimeout makes when its timer fires
IsTimedOut(s) == s.pc = "rejected" /\ s.outcome = TimeoutErr

\* all maxAttempts attempts were used and the loop gave up with the last underlying
\* error, which is neither the cancel error nor the timeout error
IsExhausted(s) ==
    /\ s.pc = "rejected"
    /\ s.calls = s.maxAttempts
    /\ s.outcome.name # "AbortError"
    /\ s.outcome # TimeoutErr

\* C1: last submit wins: a call that was superseded by a later generateWithRetry
\* while it was unresolved never resolves with a result.
C1_SupersededNeverSucceeds ==
    \A r \in Reqs : call[r].pc = "resolved" => ~call[r].superseded

\* a superseded call whose own backend attempt drew a success was rejected as cancelled
C1_Witness ==
    \E r \in Reqs :
        /\ call[r].superseded /\ ~call[r].cancelled
        /\ FailedThenOk(call[r])
        /\ IsCancelled(call[r])

\* C2: a call superseded while unresolved ends as Cancelled (AbortError), whatever its
\* in-flight attempt yields and whether it was attempting or waiting; it never
\* rejects with another error.
C2_SupersededEndsCancelled ==
    \A r \in Reqs :
        (call[r].superseded /\ Settled(call[r])) => IsCancelled(call[r])

\* C3: a call during which abort() was called rejects with AbortError and never
\* resolves with a result.
C3_AbortedEndsCancelled ==
    \A r \in Reqs :
        (call[r].cancelled /\ Settled(call[r])) => IsCancelled(call[r])

\* C4 (safety part): an undisturbed call never gives up while an attempt remains, and
\* when the backend fails the first k attempts and succeeds on attempt k+1 it
\* resolves with the result of attempt k+1 after exactly k+1 invocations.
C4_Safety ==
    \A r \in Reqs :
        Undisturbed(call[r]) =>
            /\ call[r].pc = "rejected" =>
                  (AllFailed(call[r]) /\ call[r].calls = call[r].maxAttempts)
            /\ (FailedThenOk(call[r]) /\ call[r].pc # "attempting") =>
                  /\ call[r].pc = "resolved"
                  /\ call[r].outcome.kind = "result"
                  /\ call[r].outcome.id = <<r, Len(call[r].draws)>>
                  /\ call[r].calls = Len(call[r].draws)

\* C4: with no abort and no later submit, a backend that fails the first k < maxAttempts
\* attempts and succeeds on attempt k+1 makes the call eventually resolve with the
\* result of attempt k+1, after exactly k+1 backend invocations.
C4_RetryUntilSuccess ==
    /\ []C4_Safety
    /\ \A r \in Reqs :
         (Unresolved(call[r]) /\ Undisturbed(call[r]))
            ~> (Settled(call[r]) \/ ~Undisturbed(call[r]))

\* an undisturbed call resolved with the result of its second attempt
C4_Witness ==
    \E r \in Reqs :
        /\ Undisturbed(call[r])
        /\ call[r].pc = "resolved"
        /\ call[r].draws = <<TRUE, FALSE>>
        /\ call[r].calls = 2

\* C5: with no abort and no later submit, when every backend attempt fails the call
\* makes exactly maxAttempts invocations and then rejects with the last attempt's error.
C5_ExhaustsAfterMaxAttempts ==
    \A r \in Reqs :
        (Made(call[r]) /\ Undisturbed(call[r]) /\ AllFailed(call[r]))
            => /\ call[r].calls <= call[r].maxAttempts
               /\ Settled(call[r]) =>
                    /\ call[r].pc = "rejected"
                    /\ call[r].calls = call[r].maxAttempts
                    /\ call[r].maxAttempts >= 1 => call[r].outcome = OverloadedErr

\* an undisturbed call rejected with 'Model overloaded' after two failed attempts of two
C5_Witness ==
    \E r \in Reqs :
        /\ Undisturbed(call[r])
        /\ call[r].maxAttempts = 2
        /\ call[r].draws = <<TRUE, TRUE>>
        /\ call[r].pc = "rejected"
        /\ call[r].outcome = OverloadedErr

\* C6: every call that does not return a result rejects as Cancelled, TimedOut or
\* Exhausted (all maxAttempts attempts used), for every maxAttempts including 0.
C6_RejectsWithOneOfThree ==
    \A r \in Reqs :
        call[r].pc = "rejected" =>
            (IsCancelled(call[r]) \/ IsTimedOut(call[r]) \/ IsExhausted(call[r]))

\* C7: isGenerating() is true exactly when a submitted call has neither resolved nor
\* rejected yet.
C7_IsGeneratingIffUnresolved ==
    isGenerating <=> (\E r \in Reqs : Unresolved(call[r]))

\* ----------------------------------------------------------- HistoryService
MAX_HISTORY_ITEMS == 5

\* JavaScript values read from and written to the history.  An array is Arr(seq); the
\* other JSON values a stored string can parse to are told apart by their tag only.
Arr(items) == [j |-> "array", items |-> items]
JsNull == [j |-> "null", items |-> <<>>]
JsObject == [j |-> "object", items |-> <<>>]
JsNumber == [j |-> "number", items |-> <<>>]

\* What localStorage holds under the key: nothing (getItem returns null), a string
\* that is not JSON (s: its text), or the string JSON.stringify(v) of a value v
NoItem == [t |-> "null", s |-> "", v |-> JsNull]
Raw(s) == [t |-> "raw", s |-> s, v |-> JsNull]
JSONstringify(v) == [t |-> "json", s |-> "", v |-> v]

NoEvent == [j |-> "no event", items |-> <<>>]
NotCalled == [threw |-> FALSE, value |-> [j |-> "not called", items |-> <<>>]]

\* GenerateResponse values handed to the store.  id 0 stands for the empty string and
\* -1 for a missing field (undefined); createdAt is a time stamp
Entry(i, url, c, p) ==
    [id |-> i, imageUrl |-> url, prompt |-> p, style |-> "editorial", createdAt |-> c]

Ids == 1..NumIds

\* one valid result per id, and an updated copy of the first one (same id, other
\* prompt and createdAt), as in the test 'removes duplicate items when adding existing id'
Items ==
    { Entry(i, "https://example.com/image.jpg", i, "A beautiful landscape") : i \in Ids }
    \cup { Entry(1, "https://example.com/image.jpg", NumIds + 1, "Updated prompt") }

\* array entries that are not results: null, a result without imageUrl, one with id ""
BadEntries ==
    { Entry(-1, "null", -1, "null"),
      Entry(1, "undefined", 1, "A beautiful landscape"),
      Entry(0, "https://example.com/image.jpg", 1, "A beautiful landscape") }

IsNullEntry(e) == e.prompt = "null"

\* Array.prototype.filter with the predicate h.id !== id (TypeError on a null entry
\* is decided by the callers, which test HasNull first)
RECURSIVE FilterOut(_, _)
FilterOut(seq, id) ==
    IF seq = <<>> THEN <<>>
    ELSE IF Head(seq).id # id THEN <<Head(seq)>> \o FilterOut(Tail(seq), id)
    ELSE FilterOut(Tail(seq), id)

\* mutant: slice(0, n + 1) keeps one entry too many
SliceOneMore(seq, n) == SubSeq(seq, 1, IF Len(seq) < n + 1 THEN Len(seq) ELSE n + 1)

\* Array.prototype.slice(0, n)
Slice(seq, n) == SubSeq(seq, 1, IF Len(seq) < n THEN Len(seq) ELSE n)

HasNull(seq) == \E k \in 1..Len(seq) : IsNullEntry(seq[k])

\* stored ? ... : ... (null and the empty string are falsy)
Truthy(st) == st.t # "null" /\ ~(st.t = "raw" /\ st.s = "")

\* getHistory(): st is what storage holds, getThrows whether getItem throws
getHistory(st, getThrows) ==
    IF getThrows THEN Arr(<<>>)
    ELSE IF ~Truthy(st) THEN Arr(<<>>)
    ELSE IF st.t = "raw" THEN Arr(<<>>)
    ELSE st.v

\* history.filter(...) throws a TypeError: history is no array, or an entry is null
FilterThrows(h) == h.j # "array" \/ HasNull(h.items)

\* mutant: the new item is prepended without removing the entry that has its id
TrimmedNoDedup(h, item) == Slice(<<item>> \o h.items, MAX_HISTORY_ITEMS)

\* trimmedHistory of addToHistory
Trimmed(h, item) == Slice(<<item>> \o FilterOut(h.items, item.id), MAX_HISTORY_ITEMS)

\* no direct generateImage call made yet
NoDraw ==
    [pc |-> "none", request |-> NoRequest, draw |-> -1, delay |-> 0, aborted |-> FALSE,
     outcome |-> NoResult]

\* no calculateBackoffWithJitter call made yet
NoBackoff == [attempt |-> 0, draw |-> 0, wait |-> -1]

\* the callbacks that components pass to useHistoryUpdates
Listeners == 1..NumListeners

Silent == [l \in Listeners |-> NoEvent]

\* mutant: the event also reaches the handlers that were removed
dispatchEventToRemoved(ls, detail) == [l \in Listeners |-> detail]

\* window.dispatchEvent(new CustomEvent('historyUpdated', {detail})): the handler of
\* every registered callback calls it with the detail, synchronously
dispatchEvent(ls, detail) == [l \in Listeners |-> IF l \in ls THEN detail ELSE NoEvent]

\* mutant: the catch block rethrows what it caught
CatchRethrows(threw) == threw

\* try { ... } catch (error) { console.error(...) }: whether the caller of the method
\* sees an error when the try block threw
TryCatch(threw) == FALSE

\* history variable op: name "add" | "remove" | "clear" | "read" | "none"; item the
\* argument of an add; failed: the write threw; raised: the caller saw an error;
\* before: what storage held before; cap: how many entries storage had room for;
\* id: the argument of a remove
NoOp ==
    [name |-> "none", item |-> NoResult, failed |-> FALSE, raised |-> FALSE,
     before |-> NoItem, cap |-> 0, id |-> 0]

\* an invocation of handleGenerate that has not been made yet.  pc is "idle",
\* "checking" (awaiting checkConnectivity), "calling" (awaiting generateWithRetry) or
\* "done"; req the generateWithRetry call it made; cancelled, shown, latest, during
\* are history: Cancel was clicked while it was in progress, it set generatedResult and
\* added to the history, it was then the most recent invocation, and the invocations
\* that were in progress when it was made
IdleInv ==
    [pc |-> "idle", request |-> NoRequest, req |-> 0,
     cancelled |-> FALSE, shown |-> FALSE, latest |-> FALSE, during |-> {}]

\* imageDataUrl: the empty string, the data URL of a chosen PNG file, or the https URL
\* of a history entry (v: its imageUrl)
NoImage == [t |-> "none", v |-> 0]
DataImage == [t |-> "data", v |-> 0]
UrlImage(img) == [t |-> "url", v |-> img]

\* the form before the user has touched it
EmptyForm == [image |-> NoImage, prompt |-> "", style |-> "editorial"]

Init ==
    /\ requestId = 0
    /\ abortController = 0
    /\ aborted = [c \in Reqs |-> FALSE]
    /\ call = [r \in Reqs |-> IdleCall(r)]
    /\ store = NoItem
    /\ notified = NoEvent
    /\ ret = NotCalled
    /\ recency = <<>>
    /\ clean = TRUE
    /\ listeners = {}
    /\ left = {}
    /\ heard = Silent
    /\ op = NoOp
    /\ generating = FALSE
    /\ generatedResult = NoResult
    /\ generationError = ""
    /\ inv = [i \in Reqs |-> IdleInv]
    /\ backoff = NoBackoff
    /\ timers = {}
    /\ drawn = NoDraw
    /\ form = EmptyForm
    /\ validationErrors = <<>>

\* generateWithRetry(q, m), from the call to its first await
generateWithRetry(q, m) ==
    LET r == requestId + 1 IN
    /\ requestId' = r
    /\ abortController' = r
    /\ aborted' = [aborted EXCEPT ![r] = FALSE]
    /\ \E err \in BOOLEAN :
         call' = [x \in Reqs |->
                    IF x = r
                    THEN Iteration([IdleCall(r) EXCEPT !.request = q, !.maxAttempts = m,
                                                       !.attempt = 1],
                                   r, r, FALSE, err)
                    ELSE IF Unresolved(call[x])
                    THEN [call[x] EXCEPT !.superseded = TRUE]
                    ELSE call[x]]

\* generateWithRetry(q, m) is called
Submit(q, m) ==
    /\ requestId < MaxReq
    /\ generateWithRetry(q, m)
    /\ UNCHANGED <<histVars, obsVars, appVars, backoff, timers, drawn>>

\* the delay timer of call r's pending generateImage fires.  The 30000 ms timer of
\* withTimeout is set in the same turn as this timer of less than 2000 ms, so it is
\* never the first to fire, and promise.finally clears it once the attempt settles.
DelayTimer(r) ==
    /\ call[r].pc = "attempting"
    /\ \E img \in 1..NumImages :
         call' = [call EXCEPT ![r] =
                    AfterAttempt(call[r],
                                 generateImageEnd(call[r], aborted[call[r].signal], img),
                                 requestId, abortController)]
    /\ UNCHANGED <<requestId, abortController, aborted>>

DelayFire(r) == DelayTimer(r) /\ UNCHANGED <<histVars, obsVars, appVars, backoff, timers, drawn>>

\* the backoff timer of call r's pending wait fires: the loop goes on
BackoffTimer(r) ==
    /\ call[r].pc = "waiting"
    /\ \E err \in BOOLEAN :
         call' = [call EXCEPT ![r] =
                    Iteration([call[r] EXCEPT !.attempt = @ + 1, !.signal = 0],
                              requestId, abortController, aborted[abortController], err)]
    /\ UNCHANGED <<requestId, abortController, aborted>>

BackoffFire(r) == BackoffTimer(r) /\ UNCHANGED <<histVars, obsVars, appVars, backoff, timers, drawn>>

\* what the abort listener of a call listening to the aborted signal does
OnAbort(s, rid, ctl) ==
    IF s.pc = "attempting" THEN Catch(s, AbortErr, rid, ctl)
    ELSE Reject(s, AbortErr)

\* abort(), with its continuations in the calls it rejects
abort ==
    /\ IF abortController = 0
       THEN UNCHANGED <<aborted, call>>
       ELSE /\ aborted' = [aborted EXCEPT ![abortController] = TRUE]
            /\ call' = [x \in Reqs |->
                          IF ~Unresolved(call[x]) THEN call[x]
                          ELSE LET s == [call[x] EXCEPT !.cancelled = TRUE] IN
                               IF s.signal = abortController /\ ~aborted[abortController]
                               THEN OnAbort(s, requestId, abortController)
                               ELSE s]
    /\ UNCHANGED <<requestId, abortController>>

\* abort() is called on a client that has made a call
Abort ==
    /\ abortController # 0
    /\ abort
    /\ UNCHANGED <<histVars, obsVars, appVars, backoff, timers, drawn>>

Next ==
    \/ \E q \in Requests, m \in 0..MaxAttemptsArg : Submit(q, m)
    \/ \E r \in Reqs : DelayFire(r)
    \/ \E r \in Reqs : BackoffFire(r)
    \/ Abort

Spec == Init /\ [][Next]_vars

\* history variable: the entries added so far, each id once, most recently added first
MoveToFront(seq, item) == <<item>> \o SelectSeq(seq, LAMBDA e : e.id # item.id)

\* the body of addToHistory(item); setThrows: localStorage.setItem throws (quota)
addToHistoryBody(item, getThrows, setThrows) ==
    LET history == getHistory(store, getThrows) IN
    /\ IF FilterThrows(history) \/ setThrows
       THEN /\ UNCHANGED <<store, notified>>
            /\ heard' = Silent
       ELSE /\ store' = JSONstringify(Arr(Trimmed(history, item)))
            /\ notified' = Arr(Trimmed(history, item))
            /\ heard' = dispatchEvent(listeners, Arr(Trimmed(history, item)))
    /\ clean' = (clean /\ ~getThrows /\ ~setThrows)
    /\ recency' = IF clean' THEN MoveToFront(recency, item) ELSE <<>>

\* addToHistory(item) is called
addToHistory(item, getThrows, setThrows) ==
    /\ addToHistoryBody(item, getThrows, setThrows)
    /\ UNCHANGED <<ret, listeners, left, op, apiVars, appVars, backoff, timers, drawn>>

\* the body of clearHistory(); removeThrows: localStorage.removeItem throws
clearHistoryBody(removeThrows) ==
    /\ IF removeThrows
       THEN /\ UNCHANGED <<store, notified>>
            /\ heard' = Silent
       ELSE /\ store' = NoItem
            /\ notified' = Arr(<<>>)
            /\ heard' = dispatchEvent(listeners, Arr(<<>>))
    /\ clean' = FALSE
    /\ recency' = <<>>

\* clearHistory() is called
clearHistory(removeThrows) ==
    /\ clearHistoryBody(removeThrows)
    /\ UNCHANGED <<ret, listeners, left, op, apiVars, appVars, backoff, timers, drawn>>

\* the body of removeFromHistory(id)
removeFromHistoryBody(id, getThrows, setThrows) ==
    LET history == getHistory(store, getThrows) IN
    /\ IF FilterThrows(history) \/ setThrows
       THEN /\ UNCHANGED <<store, notified>>
            /\ heard' = Silent
       ELSE /\ store' = JSONstringify(Arr(FilterOut(history.items, id)))
            /\ notified' = Arr(FilterOut(history.items, id))
            /\ heard' = dispatchEvent(listeners, Arr(FilterOut(history.items, id)))
    /\ clean' = FALSE
    /\ recency' = <<>>

\* removeFromHistory(id) is called
removeFromHistory(id, getThrows, setThrows) ==
    /\ removeFromHistoryBody(id, getThrows, setThrows)
    /\ UNCHANGED <<ret, listeners, left, op, apiVars, appVars, backoff, timers, drawn>>

\* a direct getHistory() call by the UI
GetHistoryCall(getThrows) ==
    /\ ret' = [threw |-> getThrows, value |-> getHistory(store, getThrows)]
    /\ UNCHANGED <<store, notified, recency, clean, apiVars, obsVars, appVars, backoff, timers, drawn>>

HistNext ==
    \/ \E item \in Items, g \in BOOLEAN, w \in BOOLEAN : addToHistory(item, g, w)
    \/ \E id \in Ids, g \in BOOLEAN, w \in BOOLEAN : removeFromHistory(id, g, w)
    \/ \E w \in BOOLEAN : clearHistory(w)

HistSpec == Init /\ [][HistNext]_vars


\* ----------------------------------------------------- history store claims
Min(a, b) == IF a < b THEN a ELSE b

\* the list a working getHistory() returns (<<>> when it returns no array)
Listed == IF getHistory(store, FALSE).j = "array" THEN getHistory(store, FALSE).items ELSE <<>>

DistinctIds(seq) == \A i, k \in 1..Len(seq) : i # k => seq[i].id # seq[k].id

\* C8: from empty storage, on a working storage, after any sequence of addToHistory
\* calls getHistory() returns the latest-added entry of each of the (at most 5) most
\* recently added distinct ids, most recently added first (whatever their createdAt),
\* so its length is min(number of distinct ids, 5).
C8_ListIsRecencyOrder ==
    clean =>
        /\ getHistory(store, FALSE).j = "array"
        /\ Len(Listed) = Min(Cardinality({ recency[k].id : k \in 1..Len(recency) }), 5)
        /\ \A k \in 1..Len(Listed) : Listed[k] = recency[k]

\* six distinct ids were added and the first re-added with new contents: the list
\* holds five entries, the re-added one first, and is not ordered by createdAt
C8_Witness ==
    /\ clean
    /\ Len(recency) = 6
    /\ Len(Listed) = 5
    /\ Listed[1].id = 1 /\ Listed[1].prompt = "Updated prompt"
    /\ Listed[2].createdAt < Listed[3].createdAt

\* C9: in every state reached from empty storage by addToHistory, removeFromHistory
\* and clearHistory calls, failed storage accesses included, the stored history holds
\* at most 5 entries and no two of them have the same id.
C9_AtMostFiveNoDuplicates ==
    /\ store.t \in {"null", "json"}
    /\ store.t = "json" =>
          /\ store.v.j = "array"
          /\ Len(store.v.items) <= 5
          /\ DistinctIds(store.v.items)

\* a full history, headed by a re-added id, after a removal, a clear or a failed
\* storage access has happened
C9_Witness ==
    /\ ~clean
    /\ store.t = "json"
    /\ Len(store.v.items) = 5
    /\ store.v.items[1].prompt = "Updated prompt"

\* the GenerationResult shape of the specification: the fields present, id and
\* imageUrl non-empty
IsValidResult(e) == e.id > 0 /\ e.imageUrl \notin {"null", "undefined", ""}

IsValidHistory(v) ==
    v.j = "array" /\ \A k \in 1..Len(v.items) : IsValidResult(v.items[k])

\* C10: getHistory() never raises, and returns the empty sequence whenever storage is
\* empty, storage access throws, the stored string is not JSON, or it parses to
\* something that is not a list of valid results.
C10_ReadDegradesToEmpty ==
    ret # NotCalled =>
        /\ ret.value.j # "raised"
        /\ (ret.threw \/ ~Truthy(store) \/ store.t = "raw" \/ ~IsValidHistory(store.v))
              => ret.value = Arr(<<>>)

\* ------------------------------------------------- reading a foreign storage
\* Storage contents the store may find when the page loads: nothing, strings that are
\* not JSON, JSON that is no array, and arrays of results and of other entries
RECURSIVE SeqsUpTo(_, _)
SeqsUpTo(S, n) ==
    IF n = 0 THEN {<<>>}
    ELSE SeqsUpTo(S, n - 1) \cup
         { Append(q, e) : q \in { x \in SeqsUpTo(S, n - 1) : Len(x) = n - 1 }, e \in S }

StoredSamples ==
    { NoItem, Raw(""), Raw("invalid json"),
      JSONstringify(JsNull), JSONstringify(JsObject), JSONstringify(JsNumber) }
    \cup { JSONstringify(Arr(q)) : q \in SeqsUpTo(Items \cup BadEntries, MaxStored) }

ReadInit ==
    /\ requestId = 0
    /\ abortController = 0
    /\ aborted = [c \in Reqs |-> FALSE]
    /\ call = [r \in Reqs |-> IdleCall(r)]
    /\ store \in StoredSamples
    /\ notified = NoEvent
    /\ ret = NotCalled
    /\ recency = <<>>
    /\ clean = FALSE
    /\ listeners = {}
    /\ left = {}
    /\ heard = Silent
    /\ op = NoOp
    /\ generating = FALSE
    /\ generatedResult = NoResult
    /\ generationError = ""
    /\ inv = [i \in Reqs |-> IdleInv]
    /\ backoff = NoBackoff
    /\ timers = {}
    /\ drawn = NoDraw
    /\ form = EmptyForm
    /\ validationErrors = <<>>

ReadNext == \E g \in BOOLEAN : GetHistoryCall(g)

ReadSpec == ReadInit /\ [][ReadNext]_vars

\* -------------------------------------------------------------- fairness
\* A pending timer fires: the event loop runs every timer that is due
FairSpec ==
    /\ Spec
    /\ \A r \in Reqs : WF_vars(DelayFire(r)) /\ WF_vars(BackoffFire(r))

\* generateWithRetry is called while no earlier call is pending, and abort() is never
\* called: the runs "with no cancel and no later submit"
SubmitAlone(q, m) ==
    /\ \A r \in Reqs : ~Unresolved(call[r])
    /\ Submit(q, m)

SoloNext ==
    \/ \E q \in Requests, m \in 0..MaxAttemptsArg : SubmitAlone(q, m)
    \/ \E r \in Reqs : DelayFire(r)
    \/ \E r \in Reqs : BackoffFire(r)

SoloFairSpec ==
    /\ Init /\ [][SoloNext]_vars
    /\ \A r \in Reqs : WF_vars(DelayFire(r)) /\ WF_vars(BackoffFire(r))

\* ------------------------------------------- the store seen by its callers
\* Results handed to addToHistory while callers and listeners are observed: valid
\* results, a result without imageUrl and one whose id is the empty string
StoreItems == { e \in Items : e.id <= NumStoreIds }

InvalidResults == { e \in BadEntries : ~IsNullEntry(e) }

\* How many entries localStorage has room for: none, one, or a full history
Caps == {0, 1, MAX_HISTORY_ITEMS}

\* localStorage.setItem throws QuotaExceededError when the list does not fit
QuotaThrows(list, cap) == Len(list) > cap

\* a component mounts and calls useHistoryUpdates(l)
Register(l) ==
    /\ l \notin listeners
    /\ listeners' = listeners \cup {l}
    /\ left' = left \ {l}
    /\ heard' = Silent
    /\ op' = NoOp
    /\ UNCHANGED <<histVars, apiVars, appVars, backoff, timers, drawn>>

\* the cleanup function returned by useHistoryUpdates(l) is called
Unregister(l) ==
    /\ l \in listeners
    /\ listeners' = listeners \ {l}
    /\ left' = left \cup {l}
    /\ heard' = Silent
    /\ op' = NoOp
    /\ UNCHANGED <<histVars, apiVars, appVars, backoff, timers, drawn>>

\* addToHistory(item) as its caller sees it: what it does and whether it raises
AddOp(item, getThrows, cap) ==
    LET history == getHistory(store, getThrows)
        setThrows == QuotaThrows(Trimmed(history, item), cap)
        threw == TryCatch(getThrows) \/ FilterThrows(history) \/ setThrows
    IN  /\ addToHistoryBody(item, getThrows, setThrows)
        /\ op' = [name |-> "add", item |-> item, failed |-> threw,
                  raised |-> TryCatch(threw), before |-> store, cap |-> cap, id |-> 0]

AddCall(item, getThrows, cap) ==
    /\ AddOp(item, getThrows, cap)
    /\ UNCHANGED <<ret, listeners, left, apiVars, appVars, backoff, timers, drawn>>

\* removeFromHistory(id) as its caller sees it
RemoveOp(id, getThrows, cap) ==
    LET history == getHistory(store, getThrows)
        setThrows == QuotaThrows(FilterOut(history.items, id), cap)
        threw == TryCatch(getThrows) \/ FilterThrows(history) \/ setThrows
    IN  /\ removeFromHistoryBody(id, getThrows, setThrows)
        /\ op' = [name |-> "remove", item |-> NoResult, failed |-> threw,
                  raised |-> TryCatch(threw), before |-> store, cap |-> cap, id |-> id]

RemoveCall(id, getThrows, cap) ==
    /\ RemoveOp(id, getThrows, cap)
    /\ UNCHANGED <<ret, listeners, left, apiVars, appVars, backoff, timers, drawn>>

\* clearHistory() as its caller sees it
ClearOp(removeThrows) ==
    /\ clearHistoryBody(removeThrows)
    /\ op' = [name |-> "clear", item |-> NoResult, failed |-> removeThrows,
              raised |-> TryCatch(removeThrows), before |-> store, cap |-> 0, id |-> 0]

ClearCall(removeThrows) ==
    /\ ClearOp(removeThrows)
    /\ UNCHANGED <<ret, listeners, left, apiVars, appVars, backoff, timers, drawn>>

StoreNext ==
    \/ \E l \in Listeners : Register(l)
    \/ \E l \in Listeners : Unregister(l)
    \/ \E item \in StoreItems \cup InvalidResults, g \in BOOLEAN, cap \in Caps :
          AddCall(item, g, cap)
    \/ \E id \in 0..NumStoreIds, g \in BOOLEAN, cap \in Caps : RemoveCall(id, g, cap)
    \/ \E w \in BOOLEAN : ClearCall(w)

StoreSpec == Init /\ [][StoreNext]_vars

\* what a working getHistory() returns for the stored value st
Returned(st) == getHistory(st, FALSE)

\* C11: addToHistory with an invalid result (a field missing, or an empty id or
\* imageUrl) is a no-op: the stored history and what getHistory() returns are the
\* same after the call as before it.
C11_InvalidAddIsNoOp ==
    (op.name = "add" /\ ~IsValidResult(op.item))
        => (store = op.before /\ Returned(store) = Returned(op.before))

\* C13: every addToHistory, removeFromHistory and clearHistory call has called every
\* registered listener with the resulting ordered history when it returns, also when
\* the storage write failed.
C13_EveryOpNotifiesListeners ==
    op.name \in {"add", "remove", "clear"}
        => \A l \in listeners : heard[l] = Arr(Listed)

\* C14: when the write of addToHistory fails for lack of room, the store retries once
\* with only the new entry: if one entry fits, getHistory() then returns exactly
\* that entry; if not even one fits, the stored value is unchanged.
C14_QuotaRetryKeepsNewest ==
    (op.name = "add" /\ op.failed)
        => IF op.cap >= 1 THEN Listed = <<op.item>> ELSE store = op.before

\* C12: when the stored history is a list with entries that are not results,
\* getHistory() returns only the valid entries and has written the cleaned list back:
\* after the read, the stored list is the returned one and holds valid results only.
C12_ReadDropsInvalidEntries ==
    (ret # NotCalled /\ ~ret.threw /\ store.t = "json" /\ store.v.j = "array")
        => /\ IsValidHistory(ret.value)
           /\ store.v = ret.value

\* ------------------------------------------------------------------- App
\* The App component: its form (image, prompt and style), its
\* Generate and Cancel buttons, the connectivity check it awaits before the request,
\* its history panel, and the ApiClient and the HistoryService it uses.
DefaultMaxAttempts == 3

\* what the user types into the prompt field
TypedPrompts == {"a ", "a cat"}

\* the styles the user picks in the style selector, of the five it offers
PickedStyles == {"editorial", "vintage"}

\* the request of a form that holds an image, the prompt 'a cat' and the style the
\* selector starts with
FormRequest == [prompt |-> "a cat", style |-> "editorial"]

\* String.prototype.trim and the length of the trimmed prompt
trim(p) == IF p = "a " THEN "a" ELSE p

TrimmedLength(p) ==
    IF trim(p) = "" THEN 0 ELSE IF trim(p) \in {"a", "b"} THEN 1 ELSE 5

\* SecurityValidator.sanitizePrompt: none of the prompts holds a pattern it removes
sanitizePrompt(p) == trim(p)

\* InputValidator.validatePrompt, validateStyle, validateImageDataUrl and
\* validateGenerateRequest: the messages of the errors found
validatePrompt(p) ==
    IF p = "" THEN <<"Prompt is required">>
    ELSE (IF TrimmedLength(p) = 0 THEN <<"Prompt cannot be empty">> ELSE <<>>)
         \o (IF TrimmedLength(p) < 3
             THEN <<"Prompt must be at least 3 characters long">> ELSE <<>>)

validateStyle(style) ==
    IF style = "" THEN <<"Style is required">>
    ELSE IF style \notin {"editorial", "streetwear", "vintage", "minimalist", "cyberpunk"}
    THEN <<"Style must be one of: editorial, streetwear, vintage, minimalist, cyberpunk">>
    ELSE <<>>

validateImageDataUrl(image) ==
    IF image.t = "none" THEN <<"Image data URL is required">>
    ELSE IF image.t = "data" THEN <<>>
    ELSE <<"Image data URL must be a valid data URL",
           "Image must be JPEG, PNG, or WebP format",
           "Invalid base64 data in image URL">>

validateGenerateRequest(image, p, style) ==
    validatePrompt(p) \o validateStyle(style) \o validateImageDataUrl(image)

\* canGenerate without !isGenerating: imageDataUrl && prompt.trim()
FormFilled == form.image.t # "none" /\ trim(form.prompt) # ""

\* handleGenerate invocations made so far
Started == Cardinality({ i \in Reqs : inv[i].pc # "idle" })

InProgress(v) == v.pc \in {"checking", "calling"}

\* the history panel has mounted with the App: its effect has run
Mounted == ret # NotCalled

\* the panel's callback among the callbacks registered with useHistoryUpdates
PanelListener == 1

\* the panel's history state: what its mount read, or the last list it was notified of
PanelHistory ==
    IF notified # NoEvent THEN notified.items
    ELSE IF ret.value.j = "array" THEN ret.value.items ELSE <<>>

\* a step in which no history operation is made
NoHistoryOp ==
    /\ op' = NoOp
    /\ heard' = Silent
    /\ UNCHANGED <<store, notified, recency, clean>>

\* The part of handleGenerate after `await apiClient.generateWithRetry(request)`, run in
\* the step in which the call settles: the try block's setGeneratedResult and
\* addToHistory, or the catch block, and the finally block.  invBase and genBase are
\* inv and isGenerating as the rest of the step leaves them.
AppAfter(invBase, genBase) ==
    LET done == { i \in Reqs : inv[i].pc = "calling" /\ Settled(call'[inv[i].req]) } IN
    /\ UNCHANGED <<form, validationErrors>>
    /\ IF done = {}
       THEN /\ inv' = invBase
            /\ generating' = genBase
            /\ UNCHANGED <<generatedResult, generationError>>
            /\ NoHistoryOp
       ELSE LET i == CHOOSE x \in done : TRUE
                c == call'[inv[i].req]
            IN  /\ generating' = FALSE
                /\ IF c.pc = "resolved"
                   THEN /\ generatedResult' = c.outcome
                        /\ UNCHANGED generationError
                        /\ \E g \in BOOLEAN, cap \in Caps : AddOp(c.outcome, g, cap)
                        /\ inv' = [invBase EXCEPT ![i].pc = "done", ![i].shown = TRUE,
                                                  ![i].latest = (i = Started)]
                   ELSE /\ generationError' = getUserMessage(c.outcome)
                        /\ UNCHANGED generatedResult
                        /\ NoHistoryOp
                        /\ inv' = [invBase EXCEPT ![i].pc = "done"]

\* the Generate button is clicked (it is enabled when canGenerate): handleGenerate up
\* to `await checkConnectivity()`; connected is isOnline && isConnected
HandleGenerate(connected) ==
    /\ Mounted
    /\ FormFilled /\ ~generating
    /\ IF ~connected
       THEN /\ generationError' =
                  "No internet connection. Please check your network and try again."
            /\ validationErrors' = <<>>
            /\ UNCHANGED <<generating, generatedResult, inv>>
       ELSE IF validateGenerateRequest(form.image, sanitizePrompt(form.prompt), form.style) # <<>>
       THEN /\ generationError' = ""
            /\ validationErrors' =
                  validateGenerateRequest(form.image, sanitizePrompt(form.prompt), form.style)
            /\ UNCHANGED <<generating, generatedResult, inv>>
       ELSE /\ Started < MaxReq
            /\ generationError' = ""
            /\ validationErrors' = <<>>
            /\ generating' = TRUE
            /\ generatedResult' = NoResult
            /\ inv' = [inv EXCEPT ![Started + 1] =
                         [IdleInv EXCEPT !.pc = "checking",
                                         !.request = [prompt |-> sanitizePrompt(form.prompt),
                                                      style |-> form.style],
                                         !.during = { k \in Reqs : InProgress(inv[k]) }]]
    /\ NoHistoryOp
    /\ UNCHANGED <<form, apiVars, ret, listeners, left, backoff, timers, drawn>>

\* ImageUpload has finished processing a file that was handed to it while it was
\* enabled, and calls onImageSelect: handleImageSelect.  The file is processed in later
\* tasks (image load, canvas.toBlob, FileReader), so a generation may have started since.
HandleImageSelect ==
    /\ Mounted
    /\ form' = [form EXCEPT !.image = DataImage]
    /\ generatedResult' = NoResult
    /\ generationError' = ""
    /\ NoHistoryOp
    /\ UNCHANGED <<generating, inv, validationErrors, apiVars, ret, listeners, left,
                   backoff, timers, drawn>>

\* the prompt field, disabled while isGenerating, is edited: setPrompt(p)
SetPrompt(p) ==
    /\ Mounted
    /\ ~generating
    /\ form.prompt # p
    /\ form' = [form EXCEPT !.prompt = p]
    /\ NoHistoryOp
    /\ UNCHANGED <<generating, generatedResult, generationError, inv, validationErrors,
                   apiVars, ret, listeners, left, backoff, timers, drawn>>

\* the style selector, disabled while isGenerating, is changed: setSelectedStyle(st)
SetStyle(st) ==
    /\ Mounted
    /\ ~generating
    /\ form.style # st
    /\ form' = [form EXCEPT !.style = st]
    /\ NoHistoryOp
    /\ UNCHANGED <<generating, generatedResult, generationError, inv, validationErrors,
                   apiVars, ret, listeners, left, backoff, timers, drawn>>

\* the k-th entry of the history panel is clicked: handleHistoryItemSelect(item)
HandleHistoryItemSelect(k) ==
    /\ Mounted
    /\ k \in 1..Len(PanelHistory)
    /\ form' = [image |-> UrlImage(PanelHistory[k].imageUrl),
                prompt |-> PanelHistory[k].prompt,
                style |-> PanelHistory[k].style]
    /\ generatedResult' = PanelHistory[k]
    /\ generationError' = ""
    /\ NoHistoryOp
    /\ UNCHANGED <<generating, inv, validationErrors, apiVars, ret, listeners, left,
                   backoff, timers, drawn>>

\* checkConnectivity() of invocation i resolves with ok: the invocation throws 'Lost
\* connection before starting generation', or calls generateWithRetry(request)
ConnectivityResolves(i, ok) ==
    /\ inv[i].pc = "checking"
    /\ IF ok
       THEN /\ generateWithRetry(inv[i].request, DefaultMaxAttempts)
            /\ inv' = [inv EXCEPT ![i].pc = "calling", ![i].req = requestId + 1]
            /\ UNCHANGED <<generating, generatedResult, generationError>>
       ELSE /\ generationError' = getUserMessage(OddErr)
            /\ generating' = FALSE
            /\ inv' = [inv EXCEPT ![i].pc = "done"]
            /\ UNCHANGED <<generatedResult, apiVars>>
    /\ NoHistoryOp
    /\ UNCHANGED <<form, validationErrors, ret, listeners, left, backoff, timers, drawn>>

\* a delay timer fires while the App is mounted
AppDelayFire(r) ==
    /\ DelayTimer(r)
    /\ AppAfter(inv, generating)
    /\ UNCHANGED <<ret, listeners, left, backoff, timers, drawn>>

\* a backoff timer fires while the App is mounted
AppBackoffFire(r) ==
    /\ BackoffTimer(r)
    /\ AppAfter(inv, generating)
    /\ UNCHANGED <<ret, listeners, left, backoff, timers, drawn>>

\* the Cancel button, rendered while isGenerating, is clicked: handleAbort
HandleAbort ==
    /\ generating
    /\ abort
    /\ AppAfter([i \in Reqs |->
                   IF InProgress(inv[i]) THEN [inv[i] EXCEPT !.cancelled = TRUE] ELSE inv[i]],
                FALSE)
    /\ UNCHANGED <<ret, listeners, left, backoff, timers, drawn>>

\* the history panel's Clear button, rendered while the panel's history is not empty,
\* is clicked and the confirm dialog is accepted
HandleClearHistory(removeThrows) ==
    /\ Mounted
    /\ PanelHistory # <<>>
    /\ ClearOp(removeThrows)
    /\ UNCHANGED <<ret, listeners, left, apiVars, appVars, backoff, timers, drawn>>

\* the history panel mounts with the App, before any click: its effect reads the
\* history and registers the panel's callback with useHistoryUpdates
PanelMounts(getThrows) ==
    /\ ~Mounted
    /\ ret' = [threw |-> getThrows, value |-> getHistory(store, getThrows)]
    /\ listeners' = listeners \cup {PanelListener}
    /\ op' = [name |-> "read", item |-> NoResult, failed |-> getThrows,
              raised |-> TryCatch(getThrows \/ (Truthy(store) /\ store.t = "raw")),
              before |-> store, cap |-> 0, id |-> 0]
    /\ heard' = Silent
    /\ UNCHANGED <<store, notified, recency, clean, left, apiVars, appVars, backoff, timers, drawn>>

AppNext ==
    \/ \E g \in BOOLEAN : PanelMounts(g)
    \/ HandleImageSelect
    \/ \E p \in TypedPrompts : SetPrompt(p)
    \/ \E st \in PickedStyles : SetStyle(st)
    \/ \E c \in BOOLEAN : HandleGenerate(c)
    \/ \E i \in Reqs, ok \in BOOLEAN : ConnectivityResolves(i, ok)
    \/ \E r \in Reqs : AppDelayFire(r)
    \/ \E r \in Reqs : AppBackoffFire(r)
    \/ HandleAbort
    \/ \E k \in 1..MaxReq : HandleHistoryItemSelect(k)
    \/ \E w \in BOOLEAN : HandleClearHistory(w)

AppSpec == Init /\ [][AppNext]_vars

\* the App when Cancel is never clicked: one generation at a time
QuietAppNext ==
    \/ \E g \in BOOLEAN : PanelMounts(g)
    \/ HandleImageSelect
    \/ \E p \in TypedPrompts : SetPrompt(p)
    \/ \E st \in PickedStyles : SetStyle(st)
    \/ \E c \in BOOLEAN : HandleGenerate(c)
    \/ \E i \in Reqs, ok \in BOOLEAN : ConnectivityResolves(i, ok)
    \/ \E r \in Reqs : AppDelayFire(r)
    \/ \E r \in Reqs : AppBackoffFire(r)
    \/ \E k \in 1..MaxReq : HandleHistoryItemSelect(k)
    \/ \E w \in BOOLEAN : HandleClearHistory(w)

QuietAppSpec == Init /\ [][QuietAppNext]_vars

\* C15: no history operation raises an error to its caller, whatever storage does; when
\* its write fails the stored value is left exactly as it was; and after the App's
\* addToHistory of a generated result, failed or not, the App displays that result.
C15_HistoryNeverRaises ==
    op.name # "none" =>
        /\ ~op.raised
        /\ op.failed => store = op.before
        /\ op.name = "add" => generatedResult = op.item

\* the part of C15 that is about the HistoryService alone, for the callers of StoreSpec,
\* removeFromHistory among them: the operation does not raise, and a failed write
\* leaves the stored value as it was
HistoryOpNeverRaises ==
    op.name # "none" => (~op.raised /\ (op.failed => store = op.before))

\* a removeFromHistory call whose write failed
HistoryOpNeverRaises_Witness ==
    op.name = "remove" /\ op.failed /\ Listed # <<>>

\* the App added a second result, the write failed for lack of room, the first result
\* is still the stored history and the second one is displayed
C15_Witness ==
    /\ op.name = "add" /\ op.failed /\ ~op.raised
    /\ Len(Listed) = 1
    /\ store = op.before
    /\ generatedResult = op.item
    /\ Listed[1] # op.item

\* C18: every invocation of handleGenerate that set the displayed result and added to
\* the history was, when it did, the most recently made one; and of a burst of
\* Generate actions (each made while the earlier one was in progress) only one adds a
\* history entry.
C18_OnlyLatestGenerateWrites ==
    /\ \A i \in Reqs : inv[i].shown => inv[i].latest
    /\ \A j \in Reqs : \A i \in inv[j].during : ~(inv[i].shown /\ inv[j].shown)

\* C19: after Cancel is clicked while the App shows a generation in progress, also
\* while the connectivity check is pending, the App is not generating until the next
\* Generate, and the cancelled invocation never sets the displayed result nor adds a
\* history entry.
C19_CancelledNeverShown ==
    /\ \A i \in Reqs : (i = Started /\ inv[i].cancelled) => ~generating
    /\ \A i \in Reqs : inv[i].cancelled => ~inv[i].shown

\* --------------------------------------------- the retry loop and its errors
\* The errors the catch block of the retry loop tells apart: the 'Model overloaded'
\* error of generateImage and an error of each other case of categorizeError.  The
\* error of withTimeout is not among them: its 30000 ms timer never fires before the
\* delay timer of generateImage.
BackendErrors ==
    {OverloadedErr, ValidationErr, NetworkErr, ServerErr, RateLimitErr, OddErr}

\* `await this.withTimeout(generateImage(...), 30000)` of call r settles with v, a
\* result or an error: the retry loop goes on from there
AttemptSettles(r, v) ==
    /\ call[r].pc = "attempting"
    /\ call' = [call EXCEPT ![r] =
                  AfterAttempt([call[r] EXCEPT !.yields = Append(@, v)],
                               v, requestId, abortController)]
    /\ UNCHANGED <<requestId, abortController, aborted, histVars, obsVars, appVars, backoff, timers, drawn>>

BackendNext ==
    \/ \E q \in Requests, m \in 0..MaxAttemptsArg : SubmitAlone(q, m)
    \/ \E r \in Reqs, e \in BackendErrors : AttemptSettles(r, e)
    \/ \E r \in Reqs, img \in 1..NumImages : AttemptSettles(r, Response(call[r], img))
    \/ \E r \in Reqs : BackoffFire(r)

BackendSpec == Init /\ [][BackendNext]_vars

\* the failures the specification retries: a timeout, 'overloaded', a network-class
\* failure (a server failure and a rate limit are counted as network-class)
TimeoutOrTransient(e) ==
    \/ e.name = "TimeoutError"
    \/ includes(e.message, "Model overloaded")
    \/ e.class \in {"NetworkError", "ServerError"}
    \/ includes(e.message, "rate limit")

LastYield(s) == s.yields[Len(s.yields)]

\* C16: generateWithRetry retries only when the attempt timed out or failed with a
\* transient failure ('overloaded' or network-class); when the last attempt made
\* failed with an error of any other class, an unrecognised one included, the call has
\* rejected with that error, without waiting and without another attempt.
C16_RetriesOnlyTimeoutOrTransient ==
    \A r \in Reqs :
        (Len(call[r].yields) > 0 /\ LastYield(call[r]).kind = "error"
            /\ ~TimeoutOrTransient(LastYield(call[r])))
        => /\ call[r].pc = "rejected"
           /\ call[r].outcome = LastYield(call[r])
           /\ call[r].calls = Len(call[r].yields)

\* C20: a call ends as TimedOut only if every one of its attempts timed out, and a
\* call that used all maxAttempts attempts, not all of which timed out, and gave up
\* ends as Exhausted and not as TimedOut.  No attempt times out (the error an attempt
\* leaves in lastError is never the timeout error), so: no call ends as TimedOut, and
\* a call that has used all its attempts and rejected without being cancelled is
\* Exhausted, with the error of its last attempt (when it was allowed any attempt).
C20_TimedOutOnlyIfAllTimedOut ==
    \A r \in Reqs :
        /\ call[r].lastError # TimeoutErr
        /\ ~IsTimedOut(call[r])
        /\ (call[r].pc = "rejected" /\ call[r].calls = call[r].maxAttempts
               /\ ~IsCancelled(call[r]))
           => /\ IsExhausted(call[r])
              /\ call[r].maxAttempts >= 1 => call[r].outcome = call[r].lastError

\* a call of two attempts, both of which failed with 'Model overloaded' and neither of
\* which timed out, has ended as Exhausted and not as TimedOut
C20_Witness ==
    \E r \in Reqs :
        /\ call[r].maxAttempts = MaxAttemptsArg /\ call[r].calls = MaxAttemptsArg
        /\ AllFailed(call[r])
        /\ call[r].outcome = OverloadedErr
        /\ IsExhausted(call[r]) /\ ~IsTimedOut(call[r])

\* C17: when abort() is called, every call that is unresolved at that moment, the
\* latest one and the superseded ones, attempting or waiting, rejects as Cancelled
\* then, before its pending timer fires.
C17_AbortRejectsEveryPendingCall ==
    \A r \in Reqs : call[r].cancelled => IsCancelled(call[r])

\* ------------------------------------------------------------- the backoff
\* Times are in units of 1/Scale ms, so that a jitter of baseDelay * 0.25 * (2k/n - 1)
\* is a whole number for every draw k/n
Scale == 4 * JitterSteps

RECURSIVE Pow2(_)
Pow2(n) == IF n = 0 THEN 1 ELSE 2 * Pow2(n - 1)

Max(a, b) == IF a > b THEN a ELSE b

\* mutant: the jitter is +-50% of the base delay
calculateBackoffWideJitter(attempt, k) ==
    LET baseDelay == Pow2(attempt - 1) * 1000 * Scale
        jitter == 2 * Pow2(attempt - 1) * 1000 * (2 * k - JitterSteps)
    IN  Min(Max(baseDelay + jitter, 100 * Scale), 10000 * Scale)

\* calculateBackoffWithJitter(attempt) when Math.random() draws k / JitterSteps
calculateBackoffWithJitter(attempt, k) ==
    LET baseDelay == Pow2(attempt - 1) * 1000 * Scale
        jitter == Pow2(attempt - 1) * 1000 * (2 * k - JitterSteps)
    IN  Min(Max(baseDelay + jitter, 100 * Scale), 10000 * Scale)

\* the catch block calls calculateBackoffWithJitter(attempt), which draws k / JitterSteps
CalculateBackoff(attempt, k) ==
    /\ backoff' = [attempt |-> attempt, draw |-> k,
                   wait |-> calculateBackoffWithJitter(attempt, k)]
    /\ UNCHANGED <<apiVars, histVars, obsVars, appVars, timers, drawn>>

BackoffNext ==
    \E attempt \in 1..MaxBackoffAttempt, k \in 0..(JitterSteps - 1) :
        CalculateBackoff(attempt, k)

BackoffSpec == Init /\ [][BackoffNext]_vars

\* C21: for every attempt number >= 1 and every jitter within +-25% of the base delay
\* 2^(attempt-1)*1000 ms, the backoff wait is min(max(base + jitter, 100), 10000): it
\* is at least 100 ms and at most 10000 ms, and for attempts 1, 2 and 3 it is within
\* 25% of 1 s, 2 s and 4 s.
C21_BackoffWithinBounds ==
    backoff # NoBackoff =>
        LET base == Pow2(backoff.attempt - 1) * 1000
            \* (base + jitter) * Scale, for the draw backoff.draw / JitterSteps
            sum == base * Scale + base * (2 * backoff.draw - JitterSteps)
        IN  /\ backoff.wait = IF sum < 100 * Scale THEN 100 * Scale
                              ELSE IF sum > 10000 * Scale THEN 10000 * Scale
                              ELSE sum
            /\ backoff.wait >= 100 * Scale
            /\ backoff.wait <= 10000 * Scale
            /\ backoff.attempt <= 3 =>
                  /\ 4 * backoff.wait >= 3 * base * Scale
                  /\ 4 * backoff.wait <= 5 * base * Scale

\* the wait after attempt 5, whose base delay is 16000 ms, is cut to 10000 ms
C21_Witness == backoff.attempt = 5 /\ backoff.wait = 10000 * Scale

\* C22: whenever a generateWithRetry call has resolved with a result, whichever attempt
\* produced it, the result's prompt and style are those of the request passed to that
\* call.
C22_ResultEchoesRequest ==
    \A r \in Reqs :
        call[r].pc = "resolved" =>
            /\ call[r].outcome.kind = "result"
            /\ call[r].outcome.prompt = call[r].request.prompt
            /\ call[r].outcome.style = call[r].request.style

\* a call resolved by its second attempt with its own prompt, after an earlier call
\* had been made with another request
C22_Witness ==
    \E r, x \in Reqs :
        /\ x < r
        /\ Made(call[x]) /\ call[x].request # call[r].request
        /\ call[r].pc = "resolved" /\ call[r].calls = 2
        /\ call[r].outcome.prompt = "b"

\* C23: removeFromHistory(id) leaves exactly the entries whose id differs from id, in
\* their previous order, and persists and notifies that list, also when no entry had
\* the id; after clearHistory() getHistory() returns the empty sequence and the
\* listeners were called with the empty sequence.
C23_RemoveAndClear ==
    /\ op.name = "remove"
          => /\ Returned(store) = Arr(FilterOut(Returned(op.before).items, op.id))
             /\ \A l \in listeners : heard[l] = Returned(store)
    /\ op.name = "clear"
          => /\ Returned(store) = Arr(<<>>)
             /\ \A l \in listeners : heard[l] = Arr(<<>>)

\* The store with components mounting and unmounting around its operations: one result
\* and its updated copy are added and removed, on a storage that works or fails
ListenerItems == { e \in Items : e.id = 1 }

ListenerNext ==
    \/ \E l \in Listeners : Register(l)
    \/ \E l \in Listeners : Unregister(l)
    \/ \E item \in ListenerItems, g \in BOOLEAN, cap \in {0, MAX_HISTORY_ITEMS} :
          AddCall(item, g, cap)
    \/ \E g \in BOOLEAN, cap \in {0, MAX_HISTORY_ITEMS} : RemoveCall(1, g, cap)
    \/ \E w \in BOOLEAN : ClearCall(w)

ListenerSpec == Init /\ [][ListenerNext]_vars

\* C24: a callback registered with useHistoryUpdates is called with the history of
\* every change notification dispatched while it is registered, and after its
\* cleanup function has been called no add, remove or clear calls it.
C24_ListenerUntilCleanup ==
    op.name \in {"add", "remove", "clear"}
        => /\ \A l \in listeners : ~op.failed => heard[l] = notified
           /\ \A l \in left : heard[l] = NoEvent

\* an add notified a registered callback with a non-empty history, and did not call
\* a callback that had been registered and cleaned up before
C24_Witness ==
    /\ op.name = "add" /\ ~op.failed
    /\ notified # Arr(<<>>)
    /\ \E l \in listeners : heard[l] = notified
    /\ \E k \in left : heard[k] = NoEvent

\* C25: a call that has been cancelled by abort(), superseded by a later call, or
\* failed with a non-retryable error never starts another backend attempt, and a
\* settled call has no attempt or wait pending.
C25_NoAttemptAfterCancel ==
    \A r \in Reqs :
        /\ ~call[r].late
        /\ Settled(call[r]) => call[r].signal = 0

\* a call superseded during its backoff wait and a call cancelled by abort() during
\* its first attempt were both rejected with an attempt left unused
C25_Witness ==
    \E r, x \in Reqs :
        /\ call[r].superseded /\ ~call[r].cancelled
        /\ call[r].pc = "rejected" /\ call[r].draws = <<TRUE>>
        /\ call[x].cancelled /\ ~call[x].superseded
        /\ call[x].pc = "rejected"
        /\ call[r].calls = 1 /\ call[x].calls = 1
        /\ call[r].maxAttempts = 2 /\ call[x].maxAttempts = 2

\* call s is in a backoff wait that directly follows a retryable failure of an attempt
\* numbered below maxAttempts
WaitFollowsRetryableFailure(s) ==
    /\ s.waits = s.attempt /\ s.calls = s.attempt
    /\ s.attempt < s.maxAttempts
    /\ s.lastError.kind = "error" /\ isRetryableError(s.lastError)

\* C26 as stated: a call is in a backoff wait only directly after a retryable failure
\* of an attempt numbered below maxAttempts, and a settled call that used n >= 1
\* attempts has performed exactly n-1 waits.
C26_WaitsOneLessThanAttempts ==
    \A r \in Reqs :
        /\ call[r].pc = "waiting" => WaitFollowsRetryableFailure(call[r])
        /\ (Settled(call[r]) /\ call[r].calls >= 1) => call[r].waits = call[r].calls - 1

\* C26 amended: a call is in a backoff wait only directly after a retryable failure of
\* an attempt numbered below maxAttempts; a call that made n >= 1 attempts has entered
\* n-1 waits when it is in an attempt or settled after one, and n waits when it is in
\* a wait or was cancelled or superseded during its last wait, in which case it ended
\* as Cancelled.
C26_WaitsOnlyAfterRetryableFailure ==
    \A r \in Reqs :
        /\ call[r].pc = "waiting" => WaitFollowsRetryableFailure(call[r])
        /\ call[r].pc = "attempting" => call[r].waits = call[r].calls - 1
        /\ call[r].calls = 0 => call[r].waits = 0
        /\ (Settled(call[r]) /\ call[r].calls >= 1)
              => \/ call[r].waits = call[r].calls - 1
                 \/ /\ call[r].waits = call[r].calls
                    /\ IsCancelled(call[r])
                    /\ call[r].superseded \/ call[r].cancelled

\* a call resolved by its second attempt after one wait, and a call cancelled by
\* abort() during the wait that followed its first attempt
C26_Witness ==
    \E r, x \in Reqs :
        /\ call[r].pc = "resolved" /\ call[r].calls = 2 /\ call[r].waits = 1
        /\ call[x].cancelled /\ IsCancelled(call[x])
        /\ call[x].calls = 1 /\ call[x].waits = 1

\* ------------------------------------------------------------- the timers
\* A pending setTimeout timer made on behalf of attempt k of call r.  kind is "delay"
\* (generateImage's setTimeout(resolve, delay)), "unlisten" (generateImage's timer that
\* removes the abort listener after the same delay), "due" (that timer once the delay
\* timer created just before it, with the same delay, has fired: it is the next timer
\* to fire), "timeout" (the 30000 ms timer of withTimeout) or "backoff" (the timer of
\* waitWithAbortCheck)
Timer(r, k, kind) == [r |-> r, k |-> k, kind |-> kind]

\* the timers an attempt creates: two in generateImage, one in withTimeout
AttemptTimers(r, k) == {Timer(r, k, "delay"), Timer(r, k, "unlisten"), Timer(r, k, "timeout")}

\* no listener-removal timer is due: another timer may fire
NoneDue == \A t \in timers : t.kind # "due"

\* The timers pending after a step of the ApiClient, fired being the calls whose delay
\* timer fired in the step: the listener-removal timer of the same attempt stays
\* pending and is due.  onAbort clears the delay timer only; promise.finally of
\* withTimeout clears the 30000 ms timer when the attempt settles; cleanup of
\* waitWithAbortCheck clears the backoff timer.
TimersAfter(fired) ==
    LET attemptEnded(r) == call[r].pc = "attempting" /\ call'[r].pc # "attempting"
        attemptStarted(r) == call[r].pc # "attempting" /\ call'[r].pc = "attempting"
        waitEnded(r) == call[r].pc = "waiting" /\ call'[r].pc # "waiting"
        waitStarted(r) == call[r].pc # "waiting" /\ call'[r].pc = "waiting"
        gone == { t \in timers :
                    \/ t.kind \in {"delay", "timeout"} /\ attemptEnded(t.r)
                    \/ t.kind = "backoff" /\ waitEnded(t.r) }
        nowDue == { t \in timers :
                      t.kind = "unlisten" /\ t.r \in fired /\ t.k = call[t.r].attempt }
        new == UNION { AttemptTimers(r, call'[r].attempt) : r \in { x \in Reqs : attemptStarted(x) } }
        newWaits == { Timer(r, call'[r].attempt, "backoff") : r \in { x \in Reqs : waitStarted(x) } }
    IN  timers' = ((timers \ (gone \cup nowDue))
                      \cup { Timer(t.r, t.k, "due") : t \in nowDue })
                   \cup new \cup newWaits

TimedSubmit(q, m) ==
    /\ requestId < MaxReq
    /\ generateWithRetry(q, m)
    /\ TimersAfter({})
    /\ UNCHANGED <<histVars, obsVars, appVars, backoff, drawn>>

\* the delay timer of call r fires: one task, with the continuations it resumes
TimedDelayFire(r) ==
    /\ NoneDue
    /\ DelayTimer(r)
    /\ TimersAfter({r})
    /\ UNCHANGED <<histVars, obsVars, appVars, backoff, drawn>>

TimedBackoffFire(r) ==
    /\ NoneDue
    /\ BackoffTimer(r)
    /\ TimersAfter({})
    /\ UNCHANGED <<histVars, obsVars, appVars, backoff, drawn>>

TimedAbort ==
    /\ abortController # 0
    /\ abort
    /\ TimersAfter({})
    /\ UNCHANGED <<histVars, obsVars, appVars, backoff, drawn>>

\* a listener-removal timer fires, a task of its own: the one that is due, or, when
\* none is due, one whose delay timer was cleared by onAbort:
\* abortSignal.removeEventListener('abort', onAbort)
UnlistenFire(r, k) ==
    /\ \/ Timer(r, k, "due") \in timers
       \/ /\ NoneDue
          /\ Timer(r, k, "unlisten") \in timers
          /\ Timer(r, k, "delay") \notin timers
    /\ timers' = timers \ {Timer(r, k, "due"), Timer(r, k, "unlisten")}
    /\ UNCHANGED <<apiVars, histVars, obsVars, appVars, backoff, drawn>>

TimerNext ==
    \/ \E q \in Requests, m \in 0..MaxAttemptsArg : TimedSubmit(q, m)
    \/ \E r \in Reqs : TimedDelayFire(r)
    \/ \E r \in Reqs : TimedBackoffFire(r)
    \/ TimedAbort
    \/ \E r \in Reqs, k \in 1..MaxAttemptsArg : UnlistenFire(r, k)

TimerSpec == Init /\ [][TimerNext]_vars

\* C27: after a call has rejected as Cancelled because of abort(), no timer made on
\* its behalf (delay, listener removal, 30 s timeout, backoff) is still pending.
C27_NoTimerAfterAbort ==
    \A r \in Reqs :
        (call[r].cancelled /\ IsCancelled(call[r])) => \A t \in timers : t.r # r

\* ------------------------------------------------ generateImage called alone
\* generateImage(q, signal) is called with a signal that is already aborted: it throws
\* AbortError before any Math.random()
ImageCallAborted(q) ==
    /\ drawn.pc # "pending"
    /\ drawn' = [pc |-> "settled", request |-> q, draw |-> -1, delay |-> 0,
                 aborted |-> TRUE, outcome |-> AbortErr]
    /\ UNCHANGED <<apiVars, histVars, obsVars, appVars, backoff, timers>>

\* generateImage(q, signal) is called with a signal that is not aborted: it draws
\* shouldError (k) and the delay (d, recorded in units of 1/DrawSteps ms) and awaits
\* its delay timer
ImageCall(q, k, d) ==
    /\ drawn.pc # "pending"
    /\ drawn' = [pc |-> "pending", request |-> q, draw |-> k,
                 delay |-> 1000 * DrawSteps + d * 1000,
                 aborted |-> FALSE, outcome |-> NoResult]
    /\ UNCHANGED <<apiVars, histVars, obsVars, appVars, backoff, timers>>

\* the signal is aborted during the delay: onAbort clears the delay timer and rejects
ImageAbort ==
    /\ drawn.pc = "pending"
    /\ drawn' = [drawn EXCEPT !.pc = "settled", !.aborted = TRUE, !.outcome = AbortErr]
    /\ UNCHANGED <<apiVars, histVars, obsVars, appVars, backoff, timers>>

\* the delay timer fires: generateImage throws 'Model overloaded' when it drew
\* shouldError, and returns the response, with the image it draws (img), when not
ImageDelayFire(img) ==
    /\ drawn.pc = "pending"
    /\ drawn' = [drawn EXCEPT
                   !.pc = "settled",
                   !.outcome = generateImageEnd(
                                  [IdleCall(1) EXCEPT !.request = drawn.request,
                                                      !.attempt = 1,
                                                      !.shouldError = shouldError(drawn.draw)],
                                  FALSE, img)]
    /\ UNCHANGED <<apiVars, histVars, obsVars, appVars, backoff, timers>>

ImageNext ==
    \/ \E q \in Requests : ImageCallAborted(q)
    \/ \E q \in Requests, k \in 0..(DrawSteps - 1), d \in 0..(DrawSteps - 1) :
          ImageCall(q, k, d)
    \/ ImageAbort
    \/ \E img \in 1..NumImages : ImageDelayFire(img)

ImageSpec == Init /\ [][ImageNext]_vars

\* C28: a generateImage call that is not aborted returns a result when its draw is
\* below 0.2 and rejects with 'Model overloaded' when its draw is 0.2 or more.
C28_SucceedsBelowThreshold ==
    (drawn.pc = "settled" /\ ~drawn.aborted)
        => IF 5 * drawn.draw < DrawSteps
           THEN drawn.outcome.kind = "result"
           ELSE drawn.outcome = OverloadedErr

\* ------------------------------------------------- the client at its limits
\* The ApiClient with every call made with no attempt allowed or with the largest
\* maxAttempts: calls with either request, abort() and timers interleave freely
EdgeNext ==
    \/ \E q \in Requests, m \in {0, MaxAttemptsArg} : Submit(q, m)
    \/ \E r \in Reqs : DelayFire(r)
    \/ \E r \in Reqs : BackoffFire(r)
    \/ Abort

EdgeSpec == Init /\ [][EdgeNext]_vars

\* ------------------------------------------------------------- termination
\* The ApiClient used by the App: every call carries the form's request and is made
\* with no attempt allowed or with the largest maxAttempts; calls, abort() and timers
\* interleave freely, and every pending timer eventually fires
LiveNext ==
    \/ \E m \in {0, MaxAttemptsArg} : Submit(FormRequest, m)
    \/ \E r \in Reqs : DelayFire(r)
    \/ \E r \in Reqs : BackoffFire(r)
    \/ Abort

LiveSpec ==
    /\ Init /\ [][LiveNext]_vars
    /\ \A r \in Reqs : WF_vars(DelayFire(r)) /\ WF_vars(BackoffFire(r))

\* C29: every generateWithRetry call eventually resolves or rejects when pending
\* timers eventually fire, whatever abort() calls and later calls interleave with it,
\* and it never makes more than maxAttempts backend invocations.
C29_EveryCallSettles ==
    /\ \A r \in Reqs : Unresolved(call[r]) ~> Settled(call[r])
    /\ [](\A r \in Reqs : call[r].calls <= call[r].maxAttempts)

\* a call superseded during its backoff wait has settled, and so has a call that saw
\* abort() after using both of its two attempts' worth of retries
C29_Witness ==
    \E r, x \in Reqs :
        /\ call[r].superseded /\ call[r].waits = 1 /\ call[r].calls = 1
        /\ Settled(call[r])
        /\ call[x].calls = 2 /\ call[x].maxAttempts = 2
        /\ Settled(call[x])

\* C30: isGenerating is true in every state in which a generation started by
\* handleGenerate is unresolved (its connectivity check or its generateWithRetry call
\* pending), so that Generate is never enabled during a running generation.
C30_GeneratingWhileInProgress ==
    (\E i \in Reqs : InProgress(inv[i])) => generating

====
